---- MODULE Spec2Model ----
(***************************************************************************)
(* gpr: model of src/main.rs.  The program opens the git repository in the *)
(* current directory, resolves the source branch, the remote, the hosting  *)
(* service and the target branch, builds the provider's pull-request URL   *)
(* and prints it or hands it to a browser opener.                          *)
(*                                                                         *)
(* Strings are sequences of one-character strings, so that the regular     *)
(* expressions, substring tests and format! calls of the source are        *)
(* computed character by character.                                        *)
(***************************************************************************)
EXTENDS Integers, Sequences, FiniteSets, TLC

\* ------------------------------------------------------------------------
\* String literals of the source
\* ------------------------------------------------------------------------
LitGitAt == <<"g", "i", "t", "@">>   \* "git@"
LitHttps == <<"h", "t", "t", "p", "s", ":", "/", "/">>   \* "https://"
LitDotGit == <<".", "g", "i", "t">>   \* ".git"
LitGithubCom == <<"g", "i", "t", "h", "u", "b", ".", "c", "o", "m">>   \* "github.com"
LitGitlabCom == <<"g", "i", "t", "l", "a", "b", ".", "c", "o", "m">>   \* "gitlab.com"
LitBitbucketOrg == <<"b", "i", "t", "b", "u", "c", "k", "e", "t", ".", "o", "r", "g">>   \* "bitbucket.org"
LitDevAzureCom == <<"d", "e", "v", ".", "a", "z", "u", "r", "e", ".", "c", "o", "m">>   \* "dev.azure.com"
LitVisualstudioCom == <<"v", "i", "s", "u", "a", "l", "s", "t", "u", "d", "i", "o", ".", "c", "o", "m">>   \* "visualstudio.com"
LitExampleCom == <<"e", "x", "a", "m", "p", "l", "e", ".", "c", "o", "m">>   \* "example.com"
LitAzurePrefix == <<"h", "t", "t", "p", "s", ":", "/", "/", "d", "e", "v", ".", "a", "z", "u", "r", "e", ".", "c", "o", "m", "/">>   \* "https://dev.azure.com/"
LitVsSuffix == <<".", "v", "i", "s", "u", "a", "l", "s", "t", "u", "d", "i", "o", ".", "c", "o", "m", "/">>   \* ".visualstudio.com/"
LitGhBase == <<"h", "t", "t", "p", "s", ":", "/", "/", "g", "i", "t", "h", "u", "b", ".", "c", "o", "m", "/">>   \* "https://github.com/"
LitGhCompare == <<"/", "c", "o", "m", "p", "a", "r", "e", "/">>   \* "/compare/"
LitGhDots == <<".", ".", ".">>   \* "..."
LitGhExpand == <<"?", "e", "x", "p", "a", "n", "d", "=", "1">>   \* "?expand=1"
LitGhTitle == <<"&", "t", "i", "t", "l", "e", "=">>   \* "&title="
LitGhBody == <<"&", "b", "o", "d", "y", "=">>   \* "&body="
LitGhDraft == <<"&", "d", "r", "a", "f", "t", "=", "1">>   \* "&draft=1"
LitGlBase == <<"h", "t", "t", "p", "s", ":", "/", "/", "g", "i", "t", "l", "a", "b", ".", "c", "o", "m", "/">>   \* "https://gitlab.com/"
LitGlSource == <<"/", "-", "/", "m", "e", "r", "g", "e", "_", "r", "e", "q", "u", "e", "s", "t", "s", "/", "n", "e", "w", "?", "m", "e", "r", "g", "e", "_", "r", "e", "q", "u", "e", "s", "t", "%", "5", "B", "s", "o", "u", "r", "c", "e", "_", "b", "r", "a", "n", "c", "h", "%", "5", "D", "=">>   \* "/-/merge_requests/new?merge_request%5Bsource_branch%5D="
LitGlTarget == <<"&", "m", "e", "r", "g", "e", "_", "r", "e", "q", "u", "e", "s", "t", "%", "5", "B", "t", "a", "r", "g", "e", "t", "_", "b", "r", "a", "n", "c", "h", "%", "5", "D", "=">>   \* "&merge_request%5Btarget_branch%5D="
LitGlTitle == <<"&", "m", "e", "r", "g", "e", "_", "r", "e", "q", "u", "e", "s", "t", "%", "5", "B", "t", "i", "t", "l", "e", "%", "5", "D", "=">>   \* "&merge_request%5Btitle%5D="
LitGlDescription == <<"&", "m", "e", "r", "g", "e", "_", "r", "e", "q", "u", "e", "s", "t", "%", "5", "B", "d", "e", "s", "c", "r", "i", "p", "t", "i", "o", "n", "%", "5", "D", "=">>   \* "&merge_request%5Bdescription%5D="
LitGlDraft == <<"&", "m", "e", "r", "g", "e", "_", "r", "e", "q", "u", "e", "s", "t", "%", "5", "B", "d", "r", "a", "f", "t", "%", "5", "D", "=", "t", "r", "u", "e">>   \* "&merge_request%5Bdraft%5D=true"
LitBbBase == <<"h", "t", "t", "p", "s", ":", "/", "/", "b", "i", "t", "b", "u", "c", "k", "e", "t", ".", "o", "r", "g", "/">>   \* "https://bitbucket.org/"
LitBbSource == <<"/", "p", "u", "l", "l", "-", "r", "e", "q", "u", "e", "s", "t", "s", "/", "n", "e", "w", "?", "s", "o", "u", "r", "c", "e", "=">>   \* "/pull-requests/new?source="
LitBbDest == <<"&", "d", "e", "s", "t", "=">>   \* "&dest="
LitBbTitle == <<"&", "t", "i", "t", "l", "e", "=">>   \* "&title="
LitBbDescription == <<"&", "d", "e", "s", "c", "r", "i", "p", "t", "i", "o", "n", "=">>   \* "&description="
LitAzGit == <<"/", "_", "g", "i", "t", "/">>   \* "/_git/"
LitAzSource == <<"/", "p", "u", "l", "l", "r", "e", "q", "u", "e", "s", "t", "c", "r", "e", "a", "t", "e", "?", "s", "o", "u", "r", "c", "e", "R", "e", "f", "=">>   \* "/pullrequestcreate?sourceRef="
LitAzTarget == <<"&", "t", "a", "r", "g", "e", "t", "R", "e", "f", "=">>   \* "&targetRef="
LitAzTitle == <<"&", "t", "i", "t", "l", "e", "=">>   \* "&title="
LitAzDescription == <<"&", "d", "e", "s", "c", "r", "i", "p", "t", "i", "o", "n", "=">>   \* "&description="
LitAzDraft == <<"&", "i", "s", "D", "r", "a", "f", "t", "=", "t", "r", "u", "e">>   \* "&isDraft=true"
LitOpening == <<"O", "p", "e", "n", "i", "n", "g", " ", "P", "R", " ", "U", "R", "L", ":", " ">>   \* "Opening PR URL: "
BrMain == <<"m", "a", "i", "n">>   \* "main"
BrMaster == <<"m", "a", "s", "t", "e", "r">>   \* "master"
BrDevelop == <<"d", "e", "v", "e", "l", "o", "p">>   \* "develop"
BrTrunk == <<"t", "r", "u", "n", "k">>   \* "trunk"
BrFeat == <<"f", "e", "a", "t">>   \* "feat"
BrDev == <<"d", "e", "v">>   \* "dev"
BrRel == <<"r", "e", "l">>   \* "rel"

\* Option<T>: None is the empty sequence, Some(x) the one-element sequence
None == <<>>

Some(x) == <<x>>

IsSome(o) == Len(o) = 1

\* Regex::captures found nothing
NoMatch == None

\* ------------------------------------------------------------------------
\* &str helpers (std): starts_with, contains, trim_end_matches
\* ------------------------------------------------------------------------
MinOf(S) == CHOOSE x \in S : \A y \in S : x <= y

MaxOf(S) == CHOOSE x \in S : \A y \in S : y <= x

\* the text from position i to the end
From(s, i) == SubSeq(s, i, Len(s))

\* pat occurs in s at position p
OccursAt(s, pat, p) ==
    /\ p >= 1
    /\ p + Len(pat) - 1 <= Len(s)
    /\ SubSeq(s, p, p + Len(pat) - 1) = pat

StartsWith(s, pat) == OccursAt(s, pat, 1)

EndsWith(s, pat) == OccursAt(s, pat, Len(s) - Len(pat) + 1)

Contains(s, pat) == \E p \in 1..Len(s) : OccursAt(s, pat, p)

RECURSIVE TrimEndMatches(_, _)
\* str::trim_end_matches: the suffix is removed as often as it occurs
TrimEndMatches(s, pat) ==
    IF Len(s) >= Len(pat) /\ EndsWith(s, pat)
    THEN TrimEndMatches(SubSeq(s, 1, Len(s) - Len(pat)), pat)
    ELSE s

\* the maximal run of characters not in stop, starting at position i
RunEnd(s, i, stop) ==
    LET ends == {j \in i..Len(s) : s[j] \in stop}
    IN  IF ends = {} THEN Len(s) ELSE MinOf(ends) - 1

\* "." of a regex matches every character but the line feed: positions
\* from..to of s hold none
NoLineFeed(s, from, to) == \A k \in from..to : s[k] # "\n"

\* ------------------------------------------------------------------------
\* parse_git_url
\* ------------------------------------------------------------------------
\* (.*?)(?:\.git)?$ : the shortest prefix of rest, at least least long, that
\* leaves ".git" or nothing before the end of the text
LazyBeforeDotGit(rest, least) ==
    LET ks == {k \in least..Len(rest) : From(rest, k + 1) \in {<<>>, LitDotGit}}
    IN  SubSeq(rest, 1, MinOf(ks))

\* as SshCaptures, the host matched greedily, git@(?:.*)[:/]...
SshCapturesGreedyHost(url) ==
    LET n == Len(url)
        seps(p) == {i \in (p + 4)..n :
                      /\ url[i] \in {":", "/"}
                      /\ \E j \in (i + 1)..n : url[j] = "/"}
        starts == {p \in 1..n : /\ OccursAt(url, LitGitAt, p)
                                /\ NoLineFeed(url, p + 4, n)
                                /\ seps(p) # {}}
    IN  IF starts = {} THEN NoMatch
        ELSE LET p == MinOf(starts)
                 i == MaxOf(seps(p))
                 j == MinOf({k \in (i + 1)..n : url[k] = "/"})
             IN  Some(<<SubSeq(url, i + 1, j - 1), LazyBeforeDotGit(From(url, j + 1), 0)>>)

\* Regex git@(?:.*?)[:/](.*?)/(.*?)(?:\.git)?$ , leftmost-first captures.
\* Host, owner and repo are runs of ".", so nothing after git@ is a line feed.
SshCaptures(url) ==
    LET n == Len(url)
        seps(p) == {i \in (p + 4)..n :
                      /\ url[i] \in {":", "/"}
                      /\ \E j \in (i + 1)..n : url[j] = "/"}
        starts == {p \in 1..n : /\ OccursAt(url, LitGitAt, p)
                                /\ NoLineFeed(url, p + 4, n)
                                /\ seps(p) # {}}
    IN  IF starts = {} THEN NoMatch
        ELSE LET p == MinOf(starts)
                 i == MinOf(seps(p))
                 j == MinOf({k \in (i + 1)..n : url[k] = "/"})
             IN  Some(<<SubSeq(url, i + 1, j - 1), LazyBeforeDotGit(From(url, j + 1), 0)>>)

\* Regex https://(?:.*?)/([^/]+)/([^/]+?)(?:\.git)?$ , leftmost-first captures.
\* The end of the text fixes both captures: b is the last "/", a the one
\* before it; the host, a run of ".", lies between https:// and a.
HttpsCaptures(url) ==
    LET n == Len(url)
        slashes == {i \in 1..n : url[i] = "/"}
    IN  IF Cardinality(slashes) < 2 THEN NoMatch
        ELSE LET b == MaxOf(slashes)
                 a == MaxOf(slashes \ {b})
                 starts == {p \in 1..n : /\ OccursAt(url, LitHttps, p)
                                         /\ p + 8 <= a
                                         /\ NoLineFeed(url, p + 8, a - 1)}
             IN  IF /\ starts # {}
                    /\ a + 1 <= b - 1
                    /\ b < n
                 THEN Some(<<SubSeq(url, a + 1, b - 1),
                             LazyBeforeDotGit(From(url, b + 1), 1)>>)
                 ELSE NoMatch

\* The body of parse_git_url: result is Some((owner, repo_name)), or None
\* where the source prints "Could not parse git URL" and calls exit(1);
\* tried lists the regexes on which captures() was called
ParseGitUrl(url) ==
    LET ssh == IF StartsWith(url, LitGitAt) THEN SshCaptures(url) ELSE NoMatch
        triedSsh == IF StartsWith(url, LitGitAt) THEN <<"ssh">> ELSE <<>>
    IN  IF IsSome(ssh)
        THEN [result |-> Some(<<ssh[1][1], TrimEndMatches(ssh[1][2], LitDotGit)>>),
              tried |-> triedSsh]
        ELSE LET https == HttpsCaptures(url)
             IN  [result |-> IF IsSome(https)
                             THEN Some(<<https[1][1],
                                         TrimEndMatches(https[1][2], LitDotGit)>>)
                             ELSE None,
                  tried |-> Append(triedSsh, "https")]

parse_git_url(url) == ParseGitUrl(url).result

\* ------------------------------------------------------------------------
\* determine_service
\* ------------------------------------------------------------------------
\* as determine_service, gitlab.com tested before github.com
determine_service_gitlab_first(url) ==
    IF Contains(url, LitGitlabCom) THEN "GitLab"
    ELSE IF Contains(url, LitGithubCom) THEN "GitHub"
    ELSE IF Contains(url, LitBitbucketOrg) THEN "Bitbucket"
    ELSE IF Contains(url, LitDevAzureCom) \/ Contains(url, LitVisualstudioCom)
         THEN "AzureDevOps"
    ELSE "Unknown"

determine_service(url) ==
    IF Contains(url, LitGithubCom) THEN "GitHub"
    ELSE IF Contains(url, LitGitlabCom) THEN "GitLab"
    ELSE IF Contains(url, LitBitbucketOrg) THEN "Bitbucket"
    ELSE IF Contains(url, LitDevAzureCom) \/ Contains(url, LitVisualstudioCom)
         THEN "AzureDevOps"
    ELSE "Unknown"

\* the match on args.service in main: the arms for Some(Service::...)
ServiceOfArg(s) ==
    CASE s = "Github" -> "GitHub"
      [] s = "Gitlab" -> "GitLab"
      [] s = "Bitbucket" -> "Bitbucket"
      [] s = "Azure" -> "AzureDevOps"

\* ------------------------------------------------------------------------
\* parse_azure_url
\* ------------------------------------------------------------------------
\* Regex https://dev\.azure\.com/([^/]+)/([^/]+)
AzureCaptures(url) ==
    LET n == Len(url)
        orgStart(p) == p + Len(LitAzurePrefix)
        orgEnd(p) == RunEnd(url, orgStart(p), {"/"})
        projEnd(p) == RunEnd(url, orgEnd(p) + 2, {"/"})
        ok(p) == /\ OccursAt(url, LitAzurePrefix, p)
                 /\ orgEnd(p) >= orgStart(p)
                 /\ orgEnd(p) + 1 <= n
                 /\ projEnd(p) >= orgEnd(p) + 2
        starts == {p \in 1..n : ok(p)}
    IN  IF starts = {} THEN NoMatch
        ELSE LET p == MinOf(starts)
             IN  Some(<<SubSeq(url, orgStart(p), orgEnd(p)),
                        SubSeq(url, orgEnd(p) + 2, projEnd(p))>>)

\* Regex https://([^.]+)\.visualstudio\.com/([^/]+)
VsCaptures(url) ==
    LET n == Len(url)
        orgStart(p) == p + Len(LitHttps)
        orgEnd(p) == RunEnd(url, orgStart(p), {"."})
        projStart(p) == orgEnd(p) + 1 + Len(LitVsSuffix)
        projEnd(p) == RunEnd(url, projStart(p), {"/"})
        ok(p) == /\ OccursAt(url, LitHttps, p)
                 /\ orgEnd(p) >= orgStart(p)
                 /\ OccursAt(url, LitVsSuffix, orgEnd(p) + 1)
                 /\ projEnd(p) >= projStart(p)
        starts == {p \in 1..n : ok(p)}
    IN  IF starts = {} THEN NoMatch
        ELSE LET p == MinOf(starts)
             IN  Some(<<SubSeq(url, orgStart(p), orgEnd(p)),
                        SubSeq(url, projStart(p), projEnd(p))>>)

\* Some((org, project)), or None where the source prints
\* "Could not parse Azure DevOps URL" and calls exit(1)
parse_azure_url(url) ==
    LET azure == AzureCaptures(url)
    IN  IF IsSome(azure) THEN azure ELSE VsCaptures(url)

\* ------------------------------------------------------------------------
\* form_urlencoded::byte_serialize
\* ------------------------------------------------------------------------
Unreserved ==
    {"a", "b", "c", "d", "e", "f", "g", "h", "i", "j", "k", "l", "m", "n", "o",
     "p", "q", "r", "s", "t", "u", "v", "w", "x", "y", "z", "0", "1", "2", "3",
     "4", "5", "6", "7", "8", "9", "*", "-", ".", "_"}

\* the %XX form of the reserved ASCII characters the model uses
PercentCode(c) ==
    CASE c = "&" -> <<"%", "2", "6">>
      [] c = "=" -> <<"%", "3", "D">>
      [] c = "#" -> <<"%", "2", "3">>
      [] c = "/" -> <<"%", "2", "F">>
      [] c = ":" -> <<"%", "3", "A">>
      [] c = "%" -> <<"%", "2", "5">>
      [] c = "+" -> <<"%", "2", "B">>
      [] c = "@" -> <<"%", "4", "0">>
      [] c = "?" -> <<"%", "3", "F">>

RECURSIVE byte_serialize(_)
byte_serialize(s) ==
    IF s = <<>> THEN <<>>
    ELSE (IF Head(s) \in Unreserved THEN <<Head(s)>>
          ELSE IF Head(s) = " " THEN <<"+">>
          ELSE PercentCode(Head(s))) \o byte_serialize(Tail(s))

\* if let Some(v) = opt { url.push_str(&format!("{key}{}", byte_serialize(v))) }
PushParam(key, opt) ==
    IF IsSome(opt) THEN key \o byte_serialize(opt[1]) ELSE <<>>

\* if draft { url.push_str(param) }
PushDraft(param, draft) == IF draft THEN param ELSE <<>>

\* ------------------------------------------------------------------------
\* build_pr_url: [url |-> Some(url), err |-> ""] or, where the source calls
\* exit(1), [url |-> None, err |-> the diagnostic]
\* ------------------------------------------------------------------------
\* as BuildGitHub, the two branches in each other's place
BuildGitHubSwapped(owner, repo_name, branch_name, target_branch, title, description, draft) ==
    LitGhBase \o owner \o <<"/">> \o repo_name \o LitGhCompare
        \o branch_name \o LitGhDots \o target_branch \o LitGhExpand
        \o PushParam(LitGhTitle, title)
        \o PushParam(LitGhBody, description)
        \o PushDraft(LitGhDraft, draft)

BuildGitHub(owner, repo_name, branch_name, target_branch, title, description, draft) ==
    LitGhBase \o owner \o <<"/">> \o repo_name \o LitGhCompare
        \o target_branch \o LitGhDots \o branch_name \o LitGhExpand
        \o PushParam(LitGhTitle, title)
        \o PushParam(LitGhBody, description)
        \o PushDraft(LitGhDraft, draft)

BuildGitLab(owner, repo_name, branch_name, target_branch, title, description, draft) ==
    LitGlBase \o owner \o <<"/">> \o repo_name \o LitGlSource
        \o branch_name \o LitGlTarget \o target_branch
        \o PushParam(LitGlTitle, title)
        \o PushParam(LitGlDescription, description)
        \o PushDraft(LitGlDraft, draft)

\* as BuildBitbucket, with a draft parameter like the other providers'
BuildBitbucketWithDraft(owner, repo_name, branch_name, target_branch, title, description, draft) ==
    LitBbBase \o owner \o <<"/">> \o repo_name \o LitBbSource
        \o branch_name \o LitBbDest \o target_branch
        \o PushParam(LitBbTitle, title)
        \o PushParam(LitBbDescription, description)
        \o PushDraft(LitGhDraft, draft)

BuildBitbucket(owner, repo_name, branch_name, target_branch, title, description, draft) ==
    LitBbBase \o owner \o <<"/">> \o repo_name \o LitBbSource
        \o branch_name \o LitBbDest \o target_branch
        \o PushParam(LitBbTitle, title)
        \o PushParam(LitBbDescription, description)

BuildAzure(orgProject, repo_name, branch_name, target_branch, title, description, draft) ==
    LitAzurePrefix \o orgProject[1] \o <<"/">> \o orgProject[2] \o LitAzGit
        \o repo_name \o LitAzSource \o branch_name \o LitAzTarget \o target_branch
        \o PushParam(LitAzTitle, title)
        \o PushParam(LitAzDescription, description)
        \o PushDraft(LitAzDraft, draft)

Built(url) == [url |-> Some(url), err |-> ""]

Exit1(diagnostic) == [url |-> None, err |-> diagnostic]

build_pr_url(service, owner, repo_name, branch_name, target_branch, title, description, draft) ==
    CASE service = "GitHub" ->
           Built(BuildGitHub(owner, repo_name, branch_name, target_branch,
                             title, description, draft))
      [] service = "GitLab" ->
           Built(BuildGitLab(owner, repo_name, branch_name, target_branch,
                             title, description, draft))
      [] service = "Bitbucket" ->
           Built(BuildBitbucket(owner, repo_name, branch_name, target_branch,
                                title, description, draft))
      [] service = "AzureDevOps" ->
           LET parsed == parse_azure_url(LitAzurePrefix \o owner \o <<"/">> \o repo_name)
           IN  IF IsSome(parsed)
               THEN Built(BuildAzure(parsed[1], repo_name, branch_name, target_branch,
                                     title, description, draft))
               ELSE Exit1("Could not parse Azure DevOps URL")
      [] service = "Unknown" -> Exit1("Unknown git service")

\* ------------------------------------------------------------------------
\* get_remote_url, get_default_branch
\* ------------------------------------------------------------------------
\* git.remotes[name] is [found |-> find_remote(name).is_ok(), url |-> remote.url()]
get_remote_url(git, remote_name) ==
    IF remote_name \in DOMAIN git.remotes /\ git.remotes[remote_name].found
    THEN git.remotes[remote_name].url
    ELSE None

\* for branch_name in ["main", "master", "develop", "trunk"]
DefaultBranchCandidates == <<BrMain, BrMaster, BrDevelop, BrTrunk>>

\* git.tracking holds (remote, branch) for every remote-tracking branch
\* refs/remotes/<remote>/<branch> that find_branch finds
\* as get_default_branch, probing origin whatever remote was chosen
get_default_branch_of_origin(git, remote_name) ==
    LET hits == {i \in 1..Len(DefaultBranchCandidates) :
                    <<"origin", DefaultBranchCandidates[i]>> \in git.tracking}
    IN  IF hits = {} THEN None ELSE Some(DefaultBranchCandidates[MinOf(hits)])

get_default_branch(git, remote_name) ==
    LET hits == {i \in 1..Len(DefaultBranchCandidates) :
                    <<remote_name, DefaultBranchCandidates[i]>> \in git.tracking}
    IN  IF hits = {} THEN None ELSE Some(DefaultBranchCandidates[MinOf(hits)])

\* ------------------------------------------------------------------------
\* open_url: the candidate programs of each cfg(target_os) variant
\* ------------------------------------------------------------------------
OpenCandidates(os) ==
    CASE os = "windows" -> <<"cmd">>
      [] os = "macos" -> <<"open">>
      [] os = "linux" -> <<"xdg-open", "gnome-open", "kde-open", "wslview">>
      [] os = "unix" -> <<"xdg-open", "open", "x-www-browser", "firefox",
                          "chromium-browser", "google-chrome">>

LitMicrosoft == <<"m", "i", "c", "r", "o", "s", "o", "f", "t">>

LitWsl == <<"w", "s", "l">>

ToLowerChar(c) ==
    CASE c = "M" -> "m"
      [] c = "W" -> "w"
      [] c = "S" -> "s"
      [] c = "L" -> "l"
      [] OTHER -> c

to_lowercase(s) == [i \in 1..Len(s) |-> ToLowerChar(s[i])]

\* osrelease.to_lowercase().contains("microsoft") || ...contains("wsl")
IsWsl(osrelease) ==
    \/ Contains(to_lowercase(osrelease), LitMicrosoft)
    \/ Contains(to_lowercase(osrelease), LitWsl)

\* ------------------------------------------------------------------------
\* State
\* ------------------------------------------------------------------------
VARIABLES
    args,           \* struct Args after Args::parse()
    git,            \* the repository on disk: opens, head, remotes, tracking
    sys,            \* the host: os, spawnable programs, /proc/sys/kernel/osrelease
    pc,             \* position in main
    branch_name, remote_name, remote_url, owner, repo_name,
    service, target_branch, pr_url,     \* the locals of main, None until bound
    classified,     \* whether determine_service has been called
    cand,           \* open_url: index of the next candidate program
    spawned,        \* programs on which Command::spawn was called, in order
    stdout, stderr, \* lines printed
    exit_code,      \* None while running, Some(status) after exit
    fn              \* function-level runs: inputs and results

vars == <<args, git, sys, pc, branch_name, remote_name, remote_url, owner,
          repo_name, service, target_branch, pr_url, classified, cand,
          spawned, stdout, stderr, exit_code, fn>>

inputs == <<args, git, sys, fn>>

locals == <<branch_name, remote_name, remote_url, owner, repo_name, service,
            target_branch, pr_url>>

launcher == <<cand, spawned>>

\* eprintln!(diagnostic); exit(1)
Die(diagnostic) ==
    /\ stderr' = Append(stderr, diagnostic)
    /\ exit_code' = Some(1)
    /\ pc' = "exited"

Goto(label) ==
    /\ pc' = label
    /\ UNCHANGED <<stderr, exit_code>>

\* ------------------------------------------------------------------------
\* main
\* ------------------------------------------------------------------------
\* Repository::open(".")
OpenRepo ==
    /\ pc = "open_repo"
    /\ IF git.opens THEN Goto("branch") ELSE Die("Error opening git repository")
    /\ UNCHANGED <<inputs, locals, classified, launcher, stdout>>

\* let branch_name = match &args.branch
ResolveBranch ==
    /\ pc = "branch"
    /\ IF IsSome(args.branch)
       THEN branch_name' = args.branch /\ Goto("remote")
       ELSE IF ~git.head.resolves
            THEN Die("Error getting HEAD") /\ UNCHANGED branch_name
            ELSE IF IsSome(git.head.shorthand)
                 THEN branch_name' = git.head.shorthand /\ Goto("remote")
                 ELSE /\ Die("Could not determine current branch name")
                      /\ UNCHANGED branch_name
    /\ UNCHANGED <<inputs, remote_name, remote_url, owner, repo_name, service,
                   target_branch, pr_url, classified, launcher, stdout>>

\* let remote_name = if let Some(remote) = &args.remote ...
\* as ChooseRemote, upstream preferred even when the force flag is set
ChooseRemoteForceIgnored(a, g) ==
    IF IsSome(a.remote) THEN a.remote[1]
    ELSE IF IsSome(get_remote_url(g, "upstream")) THEN "upstream" ELSE "origin"

ChooseRemote(a, g) ==
    IF IsSome(a.remote) THEN a.remote[1]
    ELSE IF ~a.force_remote
         THEN IF IsSome(get_remote_url(g, "upstream")) THEN "upstream" ELSE "origin"
         ELSE "origin"

ResolveRemote ==
    /\ pc = "remote"
    /\ remote_name' = Some(ChooseRemote(args, git))
    /\ Goto("remote_url")
    /\ UNCHANGED <<inputs, branch_name, remote_url, owner, repo_name, service,
                   target_branch, pr_url, classified, launcher, stdout>>

\* let remote_url = match get_remote_url(&repo, &remote_name)
GetRemoteUrl ==
    /\ pc = "remote_url"
    /\ LET found == get_remote_url(git, remote_name[1])
       IN  IF IsSome(found)
           THEN remote_url' = found /\ Goto("parse")
           ELSE Die("Remote not found") /\ UNCHANGED remote_url
    /\ UNCHANGED <<inputs, branch_name, remote_name, owner, repo_name, service,
                   target_branch, pr_url, classified, launcher, stdout>>

\* let (owner, repo_name) = parse_git_url(&remote_url)
ParseUrl ==
    /\ pc = "parse"
    /\ LET parsed == parse_git_url(remote_url[1])
       IN  IF IsSome(parsed)
           THEN /\ owner' = Some(parsed[1][1])
                /\ repo_name' = Some(parsed[1][2])
                /\ Goto("service")
           ELSE /\ Die("Could not parse git URL")
                /\ UNCHANGED <<owner, repo_name>>
    /\ UNCHANGED <<inputs, branch_name, remote_name, remote_url, service,
                   target_branch, pr_url, classified, launcher, stdout>>

\* let service = match args.service; classified tells whether
\* determine_service was called
\* as ChooseService, the selection used only for a URL of an unknown host
ChooseServiceUrlFirst(a, url) ==
    IF IsSome(a.service) /\ determine_service(url) = "Unknown"
    THEN [service |-> ServiceOfArg(a.service[1]), classified |-> TRUE]
    ELSE [service |-> determine_service(url), classified |-> TRUE]

ChooseService(a, url) ==
    IF IsSome(a.service)
    THEN [service |-> ServiceOfArg(a.service[1]), classified |-> FALSE]
    ELSE [service |-> determine_service(url), classified |-> TRUE]

ResolveService ==
    /\ pc = "service"
    /\ LET chosen == ChooseService(args, remote_url[1])
       IN  /\ service' = Some(chosen.service)
           /\ classified' = chosen.classified
    /\ Goto("target")
    /\ UNCHANGED <<inputs, branch_name, remote_name, remote_url, owner, repo_name,
                   target_branch, pr_url, launcher, stdout>>

\* let target_branch = match args.target
ChooseTarget(a, g, remote) ==
    IF IsSome(a.target) THEN a.target[1]
    ELSE LET probed == get_default_branch(g, remote)
         IN  IF IsSome(probed) THEN probed[1] ELSE BrMain

ResolveTarget ==
    /\ pc = "target"
    /\ target_branch' = Some(ChooseTarget(args, git, remote_name[1]))
    /\ Goto("build")
    /\ UNCHANGED <<inputs, branch_name, remote_name, remote_url, owner, repo_name,
                   service, pr_url, classified, launcher, stdout>>

\* let pr_url = build_pr_url(...)
BuildUrl ==
    /\ pc = "build"
    /\ LET built == build_pr_url(service[1], owner[1], repo_name[1], branch_name[1],
                                 target_branch[1], args.title, args.description,
                                 args.draft)
       IN  IF IsSome(built.url)
           THEN pr_url' = built.url /\ Goto("output")
           ELSE Die(built.err) /\ UNCHANGED pr_url
    /\ UNCHANGED <<inputs, branch_name, remote_name, remote_url, owner, repo_name,
                   service, target_branch, classified, launcher, stdout>>

\* if args.print_only { println!("{}", pr_url) } else { println!("Opening ...
Output ==
    /\ pc = "output"
    /\ IF args.print_only
       THEN /\ stdout' = Append(stdout, pr_url[1])
            /\ exit_code' = Some(0)
            /\ pc' = "exited"
       ELSE /\ stdout' = Append(stdout, LitOpening \o pr_url[1])
            /\ pc' = "open_url"
            /\ UNCHANGED exit_code
    /\ UNCHANGED <<inputs, locals, classified, launcher, stderr>>

\* ------------------------------------------------------------------------
\* open_url, and main's handling of its result
\* ------------------------------------------------------------------------
\* return Ok(()) : main falls off its end
OpenOk ==
    /\ exit_code' = Some(0)
    /\ pc' = "exited"
    /\ UNCHANGED stderr

\* return Err(e) : eprintln!("Failed to open browser: {}", e); exit(1)
OpenErr == Die("Failed to open browser")

\* as TrySpawn, the loop going on to the next candidate after a spawn that
\* succeeded
TrySpawnPastSuccess ==
    /\ pc = "open_url"
    /\ cand <= Len(OpenCandidates(sys.os))
    /\ LET cmd == OpenCandidates(sys.os)[cand]
       IN  /\ spawned' = Append(spawned, cmd)
           /\ IF cmd \in sys.spawnable /\ cand = Len(OpenCandidates(sys.os))
              THEN OpenOk /\ UNCHANGED cand
              ELSE IF sys.os \in {"windows", "macos"}
                   THEN OpenErr /\ UNCHANGED cand
                   ELSE /\ cand' = cand + 1
                        /\ UNCHANGED <<pc, stderr, exit_code>>
    /\ UNCHANGED <<inputs, locals, classified, stdout>>

\* Command::new(cmd).arg(url).spawn() on the next candidate
TrySpawn ==
    /\ pc = "open_url"
    /\ cand <= Len(OpenCandidates(sys.os))
    /\ LET cmd == OpenCandidates(sys.os)[cand]
       IN  /\ spawned' = Append(spawned, cmd)
           /\ IF cmd \in sys.spawnable
              THEN OpenOk /\ UNCHANGED cand
              ELSE IF sys.os \in {"windows", "macos"}
                   THEN OpenErr /\ UNCHANGED cand
                   ELSE /\ cand' = cand + 1
                        /\ UNCHANGED <<pc, stderr, exit_code>>
    /\ UNCHANGED <<inputs, locals, classified, stdout>>

\* linux, after the loop: the osrelease test and the PowerShell fallback
WslFallback ==
    /\ pc = "open_url"
    /\ sys.os = "linux"
    /\ cand > Len(OpenCandidates(sys.os))
    /\ IF sys.osrelease.exists /\ ~sys.osrelease.readable
       THEN OpenErr /\ UNCHANGED spawned
       ELSE IF sys.osrelease.exists /\ IsWsl(sys.osrelease.text)
            THEN /\ spawned' = Append(spawned, "powershell.exe")
                 /\ IF "powershell.exe" \in sys.spawnable THEN OpenOk ELSE OpenErr
            ELSE OpenErr /\ UNCHANGED spawned
    /\ UNCHANGED <<inputs, locals, classified, cand, stdout>>

\* other unix, after the loop: Err("Could not find a suitable program ...")
NoOpener ==
    /\ pc = "open_url"
    /\ sys.os = "unix"
    /\ cand > Len(OpenCandidates(sys.os))
    /\ OpenErr
    /\ UNCHANGED <<inputs, locals, classified, launcher, stdout>>

\* ------------------------------------------------------------------------
\* Bounds and input sets
\* ------------------------------------------------------------------------
MaxTracked == 4

MaxPathParts == 4

MaxOwnerParts == 2

MaxRepoParts == 2

MaxTextLen == 2

\* all concatenations of at most n members of parts
RECURSIVE UpTo(_, _)
UpTo(parts, n) ==
    IF n = 0 THEN {<<>>}
    ELSE LET shorter == UpTo(parts, n - 1)
         IN  shorter \cup {s \o p : s \in shorter, p \in parts}

Options(S) == {None} \cup {Some(x) : x \in S}

RemoteNames == {"origin", "upstream", "fork"}

ServiceArgs == {"Github", "Gitlab", "Bitbucket", "Azure"}

GitServices == {"GitHub", "GitLab", "Bitbucket", "AzureDevOps", "Unknown"}

HostNames ==
    {LitGithubCom, LitGitlabCom, LitBitbucketOrg, LitDevAzureCom,
     <<"x", ".">> \o LitVisualstudioCom, LitExampleCom}

\* remote URLs: scheme, host, separator and a path of at most MaxPathParts parts
PathParts == {<<"o">>, <<"/">>, LitDotGit}

UrlShapes ==
    {scheme \o host \o sep \o path :
        scheme \in {LitGitAt, LitHttps}, host \in HostNames,
        sep \in {<<":">>, <<"/">>}, path \in UpTo(PathParts, MaxPathParts)}

\* remote URLs that name two hosts
UrlTwoHosts ==
    {LitHttps \o h1 \o <<"/">> \o h2 \o <<"/", "r">> : h1 \in HostNames, h2 \in HostNames}

UrlPlain == LitHttps \o LitGithubCom \o <<"/", "o", "/", "r">> \o LitDotGit

Absent == [found |-> FALSE, url |-> None]

NoUrl == [found |-> TRUE, url |-> None]

Configured(url) == [found |-> TRUE, url |-> Some(url)]

\* the three remotes, each with a URL of its own
UrlOfRemote(r) ==
    CASE r = "origin" -> LitGitAt \o LitGithubCom \o <<":", "m", "e", "/", "r">> \o LitDotGit
      [] r = "upstream" -> LitHttps \o LitGitlabCom \o <<"/", "u", "p", "/", "r">>
      [] r = "fork" -> LitHttps \o LitBitbucketOrg \o <<"/", "f", "k", "/", "r">> \o LitDotGit

OriginOnly(url) ==
    [r \in RemoteNames |-> IF r = "origin" THEN Configured(url) ELSE Absent]

NoOsRelease == [exists |-> FALSE, readable |-> FALSE, text |-> <<>>]

OsReleaseFiles ==
    {NoOsRelease,
     [exists |-> TRUE, readable |-> FALSE, text |-> <<>>],
     [exists |-> TRUE, readable |-> TRUE, text |-> <<"6", ".", "1", "-", "a", "r", "c", "h">>],
     [exists |-> TRUE, readable |-> TRUE,
      text |-> <<"5", ".", "1", "-">> \o LitMicrosoft \o <<"-", "W", "S", "L", "2">>],
     [exists |-> TRUE, readable |-> TRUE,
      text |-> <<"4", ".", "4", "-", "M", "i", "c", "r", "o", "s", "o", "f", "t">>],
     [exists |-> TRUE, readable |-> TRUE, text |-> <<"5", ".", "1", "-", "W", "S", "L", "2">>]}

Range(s) == {s[i] : i \in 1..Len(s)}

\* the programs open_url may spawn on os
Programs(os) ==
    Range(OpenCandidates(os)) \cup (IF os = "linux" THEN {"powershell.exe"} ELSE {})

HostsOf(os, files) ==
    {[os |-> os, spawnable |-> sp, osrelease |-> rel] :
        sp \in SUBSET Programs(os), rel \in files}

Hosts ==
    HostsOf("linux", OsReleaseFiles)
        \cup UNION {HostsOf(os, {NoOsRelease}) : os \in {"windows", "macos", "unix"}}

DefaultArgs ==
    [branch |-> None, target |-> None, remote |-> None, force_remote |-> FALSE,
     service |-> None, print_only |-> TRUE, title |-> None, description |-> None,
     draft |-> FALSE, link |-> FALSE]

DefaultGit ==
    [opens |-> TRUE,
     head |-> [resolves |-> TRUE, shorthand |-> Some(BrFeat)],
     remotes |-> OriginOnly(UrlPlain),
     tracking |-> {<<"origin", BrMaster>>}]

DefaultSys ==
    [os |-> "linux", spawnable |-> {"xdg-open"},
     osrelease |-> NoOsRelease]

TextChars == {<<"a">>, <<" ">>, <<"&">>}

Texts == UpTo(TextChars, MaxTextLen)

\* ------------------------------------------------------------------------
\* Init: the state after Args::parse().  Each family below varies one group
\* of inputs over its whole set and holds the others at a default.
\* ------------------------------------------------------------------------
Start ==
    /\ pc = "open_repo"
    /\ branch_name = None /\ remote_name = None /\ remote_url = None
    /\ owner = None /\ repo_name = None /\ service = None
    /\ target_branch = None /\ pr_url = None
    /\ classified = FALSE
    /\ cand = 1
    /\ spawned = <<>>
    /\ stdout = <<>> /\ stderr = <<>>
    /\ exit_code = None
    /\ fn = [op |-> "main"]

\* the repository, HEAD and the branch override
InitBranch ==
    /\ \E b \in Options({BrDev}), opens \in BOOLEAN,
          head \in {[resolves |-> FALSE, shorthand |-> None],
                    [resolves |-> TRUE, shorthand |-> None],
                    [resolves |-> TRUE, shorthand |-> Some(BrFeat)]} :
          /\ args = [DefaultArgs EXCEPT !.branch = b]
          /\ git = [DefaultGit EXCEPT !.opens = opens, !.head = head]
    /\ sys = DefaultSys

\* the remote override, the force flag and the configured remotes
InitRemote ==
    /\ \E r \in Options(RemoteNames), f \in BOOLEAN,
          rs \in [RemoteNames -> {"absent", "nourl", "url"}] :
          /\ args = [DefaultArgs EXCEPT !.remote = r, !.force_remote = f]
          /\ git = [DefaultGit EXCEPT
                      !.remotes = [n \in RemoteNames |->
                                     CASE rs[n] = "absent" -> Absent
                                       [] rs[n] = "nourl" -> NoUrl
                                       [] rs[n] = "url" -> Configured(UrlOfRemote(n))]]
    /\ sys = DefaultSys

\* the target override and the remote-tracking branches
InitTarget ==
    /\ \E r \in Options({"fork"}), f \in BOOLEAN, t \in Options({BrRel}),
          tr \in SUBSET (RemoteNames \X Range(DefaultBranchCandidates)) :
          /\ Cardinality(tr) <= MaxTracked
          /\ args = [DefaultArgs EXCEPT !.remote = r, !.force_remote = f, !.target = t]
          /\ git = [DefaultGit EXCEPT
                      !.remotes = [n \in RemoteNames |-> Configured(UrlOfRemote(n))],
                      !.tracking = tr]
    /\ sys = DefaultSys

\* the remote's URL and the service selection
InitUrl ==
    /\ \E s \in Options(ServiceArgs), u \in UrlShapes \cup UrlTwoHosts :
          /\ args = [DefaultArgs EXCEPT !.service = s]
          /\ git = [DefaultGit EXCEPT !.remotes = OriginOnly(u)]
    /\ sys = DefaultSys

\* title, description and draft
InitText ==
    /\ \E s \in Options(ServiceArgs), t \in Options(Texts), d \in Options(Texts),
          dr \in BOOLEAN :
          args = [DefaultArgs EXCEPT !.service = s, !.title = t, !.description = d,
                                     !.draft = dr]
    /\ git = DefaultGit
    /\ sys = DefaultSys

\* the output flags and the host the browser is opened on
InitOutput ==
    /\ \E p \in BOOLEAN, l \in BOOLEAN :
          args = [DefaultArgs EXCEPT !.print_only = p, !.link = l]
    /\ git = DefaultGit
    /\ sys \in Hosts

Init ==
    /\ Start
    /\ \/ InitBranch
       \/ InitRemote
       \/ InitTarget
       \/ InitUrl
       \/ InitText
       \/ InitOutput

Next ==
    \/ OpenRepo
    \/ ResolveBranch
    \/ ResolveRemote
    \/ GetRemoteUrl
    \/ ParseUrl
    \/ ResolveService
    \/ ResolveTarget
    \/ BuildUrl
    \/ Output
    \/ TrySpawn
    \/ WslFallback
    \/ NoOpener

Spec == Init /\ [][Next]_vars

\* ------------------------------------------------------------------------
\* Function-level runs: main is not running, fn holds inputs and results
\* ------------------------------------------------------------------------
NotRunning ==
    /\ pc = "fn"
    /\ args = DefaultArgs /\ git = DefaultGit /\ sys = DefaultSys
    /\ branch_name = None /\ remote_name = None /\ remote_url = None
    /\ owner = None /\ repo_name = None /\ service = None
    /\ target_branch = None /\ pr_url = None
    /\ classified = FALSE
    /\ cand = 1
    /\ spawned = <<>>
    /\ stdout = <<>> /\ stderr = <<>>
    /\ exit_code = None

main == <<args, git, sys, pc, branch_name, remote_name, remote_url, owner,
          repo_name, service, target_branch, pr_url, classified, cand,
          spawned, stdout, stderr, exit_code>>

\* parse_git_url on the SSH and the HTTPS form of one host, owner and repo
NameParts == {<<"o">>, <<":">>, <<"-">>, <<"\n">>, LitGitAt, LitDotGit}

ParseHosts ==
    {<<"h">>, LitGithubCom, <<>>, <<"h", ":", "2", "2">>, <<"h", "/", "x">>,
     LitGitAt \o <<"h">>, <<"h", "\n">>}

SshForm(host, o, r, dotgit) ==
    LitGitAt \o host \o <<":">> \o o \o <<"/">> \o r
        \o (IF dotgit THEN LitDotGit ELSE <<>>)

HttpsForm(host, o, r, dotgit) ==
    LitHttps \o host \o <<"/">> \o o \o <<"/">> \o r
        \o (IF dotgit THEN LitDotGit ELSE <<>>)

InitParse ==
    /\ NotRunning
    /\ \E h \in ParseHosts, o \in UpTo(NameParts, MaxOwnerParts) \ {<<>>},
          r \in UpTo(NameParts, MaxRepoParts) \ {<<>>}, g \in BOOLEAN :
          fn = [op |-> "parse_git_url", host |-> h, owner |-> o, repo |-> r,
                dotgit |-> g, ssh |-> None, https |-> None]

ParseSshForm ==
    /\ fn.op = "parse_git_url"
    /\ fn.ssh = None
    /\ fn' = [fn EXCEPT !.ssh =
                 Some(ParseGitUrl(SshForm(fn.host, fn.owner, fn.repo, fn.dotgit)))]
    /\ UNCHANGED main

ParseHttpsForm ==
    /\ fn.op = "parse_git_url"
    /\ fn.https = None
    /\ fn' = [fn EXCEPT !.https =
                 Some(ParseGitUrl(HttpsForm(fn.host, fn.owner, fn.repo, fn.dotgit)))]
    /\ UNCHANGED main

NextParse == ParseSshForm \/ ParseHttpsForm

SpecParse == InitParse /\ [][NextParse]_vars

\* build_pr_url with and without the draft flag on one set of arguments
BuildOwners == {<<>>, <<"o">>, <<"a", "/", "b">>}

BuildRepos ==
    {<<>>, <<"r">>, <<"/", "r">>, <<"g", "/", "r">>,
     LitHttps \o <<"x">> \o LitVsSuffix \o <<"p">>}

BuildBranches == {<<BrFeat, BrMain>>, <<BrMain, BrRel>>}

InitBuild ==
    /\ NotRunning
    /\ \E s \in GitServices, o \in BuildOwners, r \in BuildRepos,
          b \in BuildBranches, t \in Options(Texts), d \in Options(Texts) :
          fn = [op |-> "build_pr_url", service |-> s, owner |-> o, repo_name |-> r,
                branch_name |-> b[1], target_branch |-> b[2], title |-> t,
                description |-> d, plain |-> None, draft |-> None]

BuildPlain ==
    /\ fn.op = "build_pr_url"
    /\ fn.plain = None
    /\ fn' = [fn EXCEPT !.plain =
                 Some(build_pr_url(fn.service, fn.owner, fn.repo_name, fn.branch_name,
                                   fn.target_branch, fn.title, fn.description, FALSE))]
    /\ UNCHANGED main

BuildDraft ==
    /\ fn.op = "build_pr_url"
    /\ fn.draft = None
    /\ fn' = [fn EXCEPT !.draft =
                 Some(build_pr_url(fn.service, fn.owner, fn.repo_name, fn.branch_name,
                                   fn.target_branch, fn.title, fn.description, TRUE))]
    /\ UNCHANGED main

NextBuild == BuildPlain \/ BuildDraft

SpecBuild == InitBuild /\ [][NextBuild]_vars


\* ------------------------------------------------------------------------
\* Claims about build_pr_url (SpecBuild)
\* ------------------------------------------------------------------------
\* the text of s before its first "/"
FirstSegment(s) == SubSeq(s, 1, RunEnd(s, 1, {"/"}))

\* the documented URL of each provider for required fields only
DocGitHub(o, r, source, target) ==
    LitHttps \o LitGithubCom \o <<"/">> \o o \o <<"/">> \o r
        \o <<"/", "c", "o", "m", "p", "a", "r", "e", "/">> \o target
        \o <<".", ".", ".">> \o source
        \o <<"?", "e", "x", "p", "a", "n", "d", "=", "1">>

\* merge_request[source_branch] and merge_request[target_branch], the
\* brackets percent-encoded as %5B and %5D
DocGitLab(o, r, source, target) ==
    LitHttps \o LitGitlabCom \o <<"/">> \o o \o <<"/">> \o r
        \o <<"/", "-", "/", "m", "e", "r", "g", "e", "_", "r", "e", "q", "u", "e",
             "s", "t", "s", "/", "n", "e", "w", "?">>
        \o <<"m", "e", "r", "g", "e", "_", "r", "e", "q", "u", "e", "s", "t", "%",
             "5", "B", "s", "o", "u", "r", "c", "e", "_", "b", "r", "a", "n", "c",
             "h", "%", "5", "D", "=">> \o source
        \o <<"&", "m", "e", "r", "g", "e", "_", "r", "e", "q", "u", "e", "s", "t",
             "%", "5", "B", "t", "a", "r", "g", "e", "t", "_", "b", "r", "a", "n",
             "c", "h", "%", "5", "D", "=">> \o target

DocBitbucket(o, r, source, target) ==
    LitHttps \o LitBitbucketOrg \o <<"/">> \o o \o <<"/">> \o r
        \o <<"/", "p", "u", "l", "l", "-", "r", "e", "q", "u", "e", "s", "t", "s",
             "/", "n", "e", "w", "?">>
        \o <<"s", "o", "u", "r", "c", "e", "=">> \o source
        \o <<"&", "d", "e", "s", "t", "=">> \o target

DocAzure(org, project, r, source, target) ==
    LitHttps \o LitDevAzureCom \o <<"/">> \o org \o <<"/">> \o project
        \o <<"/", "_", "g", "i", "t", "/">> \o r
        \o <<"/", "p", "u", "l", "l", "r", "e", "q", "u", "e", "s", "t", "c", "r",
             "e", "a", "t", "e", "?">>
        \o <<"s", "o", "u", "r", "c", "e", "R", "e", "f", "=">> \o source
        \o <<"&", "t", "a", "r", "g", "e", "t", "R", "e", "f", "=">> \o target

\* build_pr_url ran without title, description and draft
RequiredOnly ==
    /\ fn.op = "build_pr_url"
    /\ fn.title = None /\ fn.description = None
    /\ IsSome(fn.plain)

\* the documented URL for the arguments in fn, the Azure project being the
\* first path segment of the repository name
DocUrl ==
    CASE fn.service = "GitHub" ->
           DocGitHub(fn.owner, fn.repo_name, fn.branch_name, fn.target_branch)
      [] fn.service = "GitLab" ->
           DocGitLab(fn.owner, fn.repo_name, fn.branch_name, fn.target_branch)
      [] fn.service = "Bitbucket" ->
           DocBitbucket(fn.owner, fn.repo_name, fn.branch_name, fn.target_branch)
      [] fn.service = "AzureDevOps" ->
           DocAzure(fn.owner, FirstSegment(fn.repo_name), fn.repo_name,
                    fn.branch_name, fn.target_branch)

\* C1 as stated: for every supported provider and every owner, repo, source
\* and target branch, build_pr_url with no title, no description and
\* draft = false returns the provider's documented URL, with owner, repo and
\* both branches in their documented positions.
C1_EveryInputYieldsDocumentedUrl ==
    (RequiredOnly /\ fn.service # "Unknown")
        => fn.plain[1] = [url |-> Some(DocUrl), err |-> ""]

\* the Azure re-parse of https://dev.azure.com/{owner}/{repo} matches the
\* dev.azure.com pattern
AzureReparses ==
    /\ fn.owner # <<>>
    /\ fn.repo_name # <<>>
    /\ fn.repo_name[1] # "/"

\* C1 amended: GitHub, GitLab and Bitbucket return the documented URL for
\* every owner, repo and branch pair.  For AzureDevOps and an owner free of
\* "/": when the owner is non-empty and the repo is non-empty and does not
\* begin with "/", the builder returns the documented URL, org = owner and
\* project = first path segment of repo; otherwise, the repo not holding
\* "https://", it aborts with the Azure-URL-unparseable error and returns no
\* URL.  Source and target are never swapped.
C1_DocumentedUrlUnlessAzureReparseFails ==
    (RequiredOnly /\ fn.service # "Unknown")
        => CASE fn.service # "AzureDevOps" ->
                  fn.plain[1] = [url |-> Some(DocUrl), err |-> ""]
             [] fn.service = "AzureDevOps" /\ Contains(fn.owner, <<"/">>) ->
                  TRUE
             [] fn.service = "AzureDevOps" /\ ~Contains(fn.owner, <<"/">>)
                  /\ AzureReparses ->
                  fn.plain[1] = [url |-> Some(DocUrl), err |-> ""]
             [] OTHER ->
                  \/ Contains(fn.repo_name, LitHttps)
                  \/ fn.plain[1] = [url |-> None,
                                    err |-> "Could not parse Azure DevOps URL"]

\* an Azure URL was built for a repository name of two path segments, with
\* distinct source and target branches
C1_Witness ==
    /\ RequiredOnly
    /\ fn.service = "AzureDevOps"
    /\ fn.owner = <<"o">>
    /\ fn.repo_name = <<"g", "/", "r">>
    /\ fn.branch_name # fn.target_branch
    /\ IsSome(fn.plain[1].url)

\* %5B and %5D decoded to the brackets they encode
RECURSIVE DecodeBrackets(_)
DecodeBrackets(s) ==
    IF s = <<>> THEN <<>>
    ELSE IF StartsWith(s, <<"%", "5", "B">>) THEN <<"[">> \o DecodeBrackets(From(s, 4))
    ELSE IF StartsWith(s, <<"%", "5", "D">>) THEN <<"]">> \o DecodeBrackets(From(s, 4))
    ELSE <<Head(s)>> \o DecodeBrackets(Tail(s))

\* what draft = true adds to the URL built with draft = false
DraftSuffix ==
    LET plain == fn.plain[1].url[1]
        draft == fn.draft[1].url[1]
    IN  IF Len(draft) >= Len(plain) /\ SubSeq(draft, 1, Len(plain)) = plain
        THEN Some(From(draft, Len(plain) + 1))
        ELSE None

\* the provider's draft parameter
DocDraftParam(s) ==
    CASE s = "GitHub" -> <<"&", "d", "r", "a", "f", "t", "=", "1">>
      [] s = "GitLab" -> <<"&", "m", "e", "r", "g", "e", "_", "r", "e", "q", "u", "e",
                           "s", "t", "[", "d", "r", "a", "f", "t", "]", "=", "t", "r",
                           "u", "e">>
      [] s = "AzureDevOps" -> <<"&", "i", "s", "D", "r", "a", "f", "t", "=", "t", "r",
                                "u", "e">>

BothBuilt ==
    /\ fn.op = "build_pr_url"
    /\ IsSome(fn.plain)
    /\ IsSome(fn.draft)

\* C9: for Bitbucket draft = true returns exactly the URL of draft = false,
\* for every owner, repo, branches, title and description; for GitHub, GitLab
\* and AzureDevOps the URL with draft = true is the URL with draft = false
\* (which ends with any title and description parameters) followed by exactly
\* the provider's draft parameter.
C9_DraftParameter ==
    BothBuilt =>
        IF fn.service = "Bitbucket" \/ ~IsSome(fn.plain[1].url)
        THEN fn.draft[1] = fn.plain[1]
        ELSE /\ IsSome(fn.draft[1].url)
             /\ IsSome(DraftSuffix)
             /\ DecodeBrackets(DraftSuffix[1]) = DocDraftParam(fn.service)

\* Bitbucket built both URLs with a non-empty title and a description, and
\* its draft URL is its plain one
C9_Witness ==
    /\ BothBuilt
    /\ fn.service = "Bitbucket"
    /\ IsSome(fn.title) /\ fn.title # Some(<<>>)
    /\ IsSome(fn.description)
    /\ IsSome(fn.plain[1].url)
    /\ fn.draft[1].url = fn.plain[1].url

\* ------------------------------------------------------------------------
\* Claims about parse_git_url (SpecParse)
\* ------------------------------------------------------------------------
BothParsed ==
    /\ fn.op = "parse_git_url"
    /\ IsSome(fn.ssh)
    /\ IsSome(fn.https)

\* C8 as stated: for every host, owner and repo (owner and repo non-empty
\* and free of "/"), git@host:owner/repo[.git] and
\* https://host/owner/repo[.git] parse to the identical pair (owner, repo).
C8_SshAndHttpsGiveOwnerRepo ==
    BothParsed =>
        /\ fn.ssh[1].result = Some(<<fn.owner, fn.repo>>)
        /\ fn.https[1].result = Some(<<fn.owner, fn.repo>>)

\* host, owner and repo hold no line feed; the host holds no ":" and no "/";
\* the repo does not end in ".git"
PlainHostAndRepo ==
    /\ \A s \in {fn.host, fn.owner, fn.repo} : \A i \in 1..Len(s) : s[i] # "\n"
    /\ \A i \in 1..Len(fn.host) : fn.host[i] \notin {":", "/"}
    /\ ~EndsWith(fn.repo, <<".", "g", "i", "t">>)

\* C8 amended: for every host, non-empty owner and non-empty repo, all free
\* of line feeds, owner and repo free of "/", the host free of ":" and "/",
\* and the repo not itself ending in ".git", git@host:owner/repo[.git] and
\* https://host/owner/repo[.git] parse to the identical pair (owner, repo),
\* the optional trailing ".git" removed in both forms; the SSH form is
\* settled by the SSH pattern alone, and the HTTPS pattern is the only one
\* applied to the HTTPS form.
C8_SshAndHttpsAgreeOnPlainNames ==
    (BothParsed /\ PlainHostAndRepo) =>
        /\ fn.ssh[1] = [result |-> Some(<<fn.owner, fn.repo>>), tried |-> <<"ssh">>]
        /\ fn.https[1] = [result |-> Some(<<fn.owner, fn.repo>>), tried |-> <<"https">>]

\* both forms, ending in ".git", parsed for an owner that holds a ":"
C8_Witness ==
    /\ BothParsed
    /\ PlainHostAndRepo
    /\ fn.dotgit
    /\ fn.host = <<"g", "i", "t", "h", "u", "b", ".", "c", "o", "m">>
    /\ fn.owner = <<":">>
    /\ fn.ssh[1].result = Some(<<fn.owner, fn.repo>>)
    /\ fn.https[1].result = fn.ssh[1].result

\* ------------------------------------------------------------------------
\* Claims about main (Spec)
\* ------------------------------------------------------------------------
Exited(status) == pc = "exited" /\ exit_code = Some(status)

\* the run printed its output: the URL was built and a line written to stdout
ReachedOutput == IsSome(pr_url) /\ stdout # <<>>

\* C2: in every run that reaches output with the print-only flag or the
\* link-only flag set, standard output holds a single line that is just the
\* PR URL and no browser-open attempt is made; the confirmation message and a
\* browser-open attempt happen only when neither flag is set.
C2_PrintOnlyOrLinkPrintsJustUrl ==
    ReachedOutput =>
        IF args.print_only \/ args.link
        THEN stdout = <<pr_url[1]>> /\ spawned = <<>>
        ELSE stdout = <<LitOpening \o pr_url[1]>>

\* a remote of that name with a URL is configured
HasUrl(name) ==
    /\ name \in DOMAIN git.remotes
    /\ git.remotes[name].found
    /\ IsSome(git.remotes[name].url)

\* the remote name the documented precedence gives
DocRemote ==
    IF args.remote # None THEN args.remote[1]
    ELSE IF args.force_remote THEN "origin"
    ELSE IF HasUrl("upstream") THEN "upstream"
    ELSE "origin"

\* main is past the lookup of the chosen remote's URL
PastRemoteUrl == IsSome(remote_name) /\ pc # "remote_url"

\* C3: the chosen remote is the override if one is given, else "origin" if
\* the force flag is set, else "upstream" exactly when an upstream remote with
\* a URL is configured, else "origin"; if the chosen remote is not configured
\* the run aborts with remote-not-found and no other remote's URL is used.
C3_RemotePrecedence ==
    /\ IsSome(remote_name) => remote_name[1] = DocRemote
    /\ PastRemoteUrl =>
          IF HasUrl(DocRemote)
          THEN remote_url = git.remotes[DocRemote].url
          ELSE /\ remote_url = None
               /\ Exited(1)
               /\ stderr = <<"Remote not found">>

\* the force flag made the run use origin although upstream is configured
C3_Witness ==
    /\ args.remote = None
    /\ args.force_remote
    /\ HasUrl("upstream")
    /\ HasUrl("origin")
    /\ remote_name = Some("origin")
    /\ remote_url = git.remotes["origin"].url
    /\ git.remotes["origin"].url # git.remotes["upstream"].url

Tracked(remote, branch) == <<remote, branch>> \in git.tracking

\* the target branch the documented resolution gives for the chosen remote
DocTarget ==
    IF args.target # None THEN args.target[1]
    ELSE IF Tracked(DocRemote, <<"m", "a", "i", "n">>) THEN <<"m", "a", "i", "n">>
    ELSE IF Tracked(DocRemote, <<"m", "a", "s", "t", "e", "r">>)
         THEN <<"m", "a", "s", "t", "e", "r">>
    ELSE IF Tracked(DocRemote, <<"d", "e", "v", "e", "l", "o", "p">>)
         THEN <<"d", "e", "v", "e", "l", "o", "p">>
    ELSE IF Tracked(DocRemote, <<"t", "r", "u", "n", "k">>) THEN <<"t", "r", "u", "n", "k">>
    ELSE <<"m", "a", "i", "n">>

\* C4: an explicit target override is always used; otherwise the target is
\* the first of main, master, develop, trunk that exists as a remote-tracking
\* branch of the chosen remote, and "main" when none exists; resolving the
\* target never ends the run: every run that resolved its service also
\* resolved its target.
C4_TargetBranch ==
    /\ IsSome(target_branch) => target_branch[1] = DocTarget
    /\ (IsSome(service) /\ pc # "target") => IsSome(target_branch)

\* master was chosen for the fork remote while origin tracks main
C4_Witness ==
    /\ args.target = None
    /\ remote_name = Some("fork")
    /\ Tracked("origin", BrMain)
    /\ ~Tracked("fork", BrMain)
    /\ Tracked("fork", BrMaster)
    /\ Tracked("fork", BrTrunk)
    /\ target_branch = Some(BrMaster)

\* the provider an explicit selection names
DocSelected ==
    CASE args.service = Some("Github") -> "GitHub"
      [] args.service = Some("Gitlab") -> "GitLab"
      [] args.service = Some("Bitbucket") -> "Bitbucket"
      [] args.service = Some("Azure") -> "AzureDevOps"

\* C5 as stated: with an explicit provider selection that provider is used,
\* the classifier is not consulted, and the content of the remote URL cannot
\* make the run fail or change the provider.
C5_SelectionIgnoresUrl ==
    (IsSome(args.service) /\ IsSome(remote_url)) =>
        /\ ~classified
        /\ IsSome(service) => service[1] = DocSelected
        /\ ~Exited(1)

\* C5 amended: with an explicit provider selection, every run whose remote
\* URL parses into owner and repository hands the selected provider to the
\* URL builder without consulting the hostname classifier, whatever the URL
\* holds; the remote URL is still parsed before that, so it can end the run
\* with the URL-unparseable error (or, for AzureDevOps, the Azure re-parse
\* error), but it never changes the provider and never yields the
\* unknown-provider error.
C5_SelectionDecidesProvider ==
    (IsSome(args.service) /\ IsSome(remote_url)) =>
        /\ ~classified
        /\ IsSome(service) => service[1] = DocSelected
        /\ pc \in {"target", "build", "output", "open_url"} => IsSome(service)
        /\ Exited(0) => IsSome(service)
        /\ Exited(1) =>
              \/ stderr = <<"Could not parse git URL">> /\ service = None
              \/ /\ stderr = <<"Could not parse Azure DevOps URL">>
                 /\ service = Some("AzureDevOps")
              \/ stderr = <<"Failed to open browser">>

\* a URL of one provider's host was built for another, selected provider
C5_Witness ==
    /\ args.service = Some("Gitlab")
    /\ IsSome(remote_url)
    /\ Contains(remote_url[1], <<"g", "i", "t", "h", "u", "b", ".", "c", "o", "m">>)
    /\ service = Some("GitLab")
    /\ IsSome(pr_url)
    /\ Exited(0)

\* the provider the documented order of hostnames gives
DocClassified(url) ==
    LET order == <<<<"g", "i", "t", "h", "u", "b", ".", "c", "o", "m">>,
                   <<"g", "i", "t", "l", "a", "b", ".", "c", "o", "m">>,
                   <<"b", "i", "t", "b", "u", "c", "k", "e", "t", ".", "o", "r", "g">>,
                   <<"d", "e", "v", ".", "a", "z", "u", "r", "e", ".", "c", "o", "m">>,
                   <<"v", "i", "s", "u", "a", "l", "s", "t", "u", "d", "i", "o", ".",
                     "c", "o", "m">>>>
        names == <<"GitHub", "GitLab", "Bitbucket", "AzureDevOps", "AzureDevOps">>
        hits == {i \in 1..5 : Contains(url, order[i])}
    IN  IF hits = {} THEN "Unknown" ELSE names[MinOf(hits)]

\* C6: without an explicit provider, every URL that parsed is classified, as
\* the first of github.com, gitlab.com, bitbucket.org, (dev.azure.com or
\* visualstudio.com) it contains and as Unknown if it contains none; an
\* Unknown provider ends the run only in the builder, after the target was
\* resolved, with status 1 and no PR URL built, printed or opened.
C6_ClassificationAndUnknown ==
    /\ (args.service = None /\ IsSome(owner) /\ pc # "service") =>
          /\ classified
          /\ service = Some(DocClassified(remote_url[1]))
    /\ service = Some("Unknown") =>
          \/ pc \in {"target", "build"} /\ exit_code = None
          \/ /\ Exited(1)
             /\ stderr = <<"Unknown git service">>
             /\ IsSome(target_branch)
             /\ pr_url = None
             /\ stdout = <<>>
             /\ spawned = <<>>

\* a URL of an unrecognised host ended the run in the builder
C6_Witness ==
    /\ args.service = None
    /\ classified
    /\ IsSome(remote_url)
    /\ Contains(remote_url[1], <<"e", "x", "a", "m", "p", "l", "e", ".", "c", "o", "m">>)
    /\ service = Some("Unknown")
    /\ IsSome(target_branch)
    /\ Exited(1)

\* C7: no run proceeds past parse_git_url with an empty owner or an empty
\* repository name.
C7_OwnerAndRepoNonEmpty ==
    IsSome(owner) => owner[1] # <<>> /\ repo_name[1] # <<>>

\* the candidate programs in their listed order
DocCandidates ==
    CASE sys.os = "windows" -> <<"cmd">>
      [] sys.os = "macos" -> <<"open">>
      [] sys.os = "linux" -> <<"xdg-open", "gnome-open", "kde-open", "wslview">>
      [] sys.os = "unix" -> <<"xdg-open", "open", "x-www-browser", "firefox",
                              "chromium-browser", "google-chrome">>

\* the PowerShell fallback applies: linux, with a readable osrelease that
\* names microsoft or wsl
DocFallbackApplies ==
    /\ sys.os = "linux"
    /\ sys.osrelease.exists
    /\ sys.osrelease.readable
    /\ \/ Contains(to_lowercase(sys.osrelease.text), <<"m", "i", "c", "r", "o", "s", "o", "f", "t">>)
       \/ Contains(to_lowercase(sys.osrelease.text), <<"w", "s", "l">>)

\* the programs the launcher goes through, fallback included
DocAttempts ==
    IF DocFallbackApplies THEN Append(DocCandidates, "powershell.exe") ELSE DocCandidates

\* C10: the programs spawned are an initial part of the listed candidates
\* (then the PowerShell fallback where it applies), each at most once; every
\* spawn but the last failed, and a run that ended well after spawning ended
\* on a spawn that succeeded; the open action fails, with status 1 and the
\* confirmation line already printed, only when every candidate and the
\* applicable fallback failed to spawn.
C10_LauncherOrder ==
    LET n == Len(spawned)
    IN  /\ n <= Len(DocAttempts)
        /\ spawned = SubSeq(DocAttempts, 1, n)
        /\ \A i \in 1..(n - 1) : spawned[i] \notin sys.spawnable
        /\ (n > 0 /\ Exited(0)) => spawned[n] \in sys.spawnable
        /\ n > 0 => stdout = <<LitOpening \o pr_url[1]>>
        /\ (Exited(1) /\ stderr = <<"Failed to open browser">>) =>
              /\ stdout = <<LitOpening \o pr_url[1]>>
              /\ \A i \in 1..n : spawned[i] \notin sys.spawnable
              /\ \/ spawned = DocAttempts
                 \/ /\ spawned = DocCandidates
                    /\ sys.os = "linux"
                    /\ sys.osrelease.exists /\ ~sys.osrelease.readable
        /\ (Exited(0) /\ ~args.print_only) => n > 0

\* on linux under WSL all four candidates failed to spawn, in their order,
\* and the run ended well on the PowerShell fallback
C10_Witness ==
    /\ sys.os = "linux"
    /\ spawned = <<"xdg-open", "gnome-open", "kde-open", "wslview", "powershell.exe">>
    /\ sys.spawnable = {"powershell.exe"}
    /\ Exited(0)
====
